---------------------------- MODULE Spec2Model ----------------------------
(***************************************************************************)
(* A model of the two utilities of the repository:                         *)
(*   src/src/utils/reader.ts   readUrl                                     *)
(*   src/src/commands/corr.ts  cosineSimilarity, computeCorrelationMatrix, *)
(*                             isImagePath, resolveImagePath,              *)
(*                             loadEmbeddings, truncateLabel, main         *)
(*                                                                         *)
(* JavaScript numbers are IEEE-754 binary64 values.  Math.sqrt, * and /    *)
(* are modelled bit-exactly (round to nearest, ties to even) on top of an  *)
(* arbitrary-precision natural-number arithmetic, because TLC's integers   *)
(* are 32 bits wide and a binary64 significand has 53 bits.                *)
(* JavaScript strings are modelled as sequences of UTF-16 code units, each *)
(* code unit written as a one-element TLA+ string.                         *)
(***************************************************************************)
EXTENDS Integers, Sequences, FiniteSets, TLC

(***************************************************************************)
(* Arbitrary-precision naturals: little-endian sequences of limbs in       *)
(* 0 .. LimbBase-1 with no leading (most significant) zero limb.           *)
(***************************************************************************)
\* the widest limb whose products still fit TLC's 32-bit integers
LimbBits == (31 - 1) \div 2
LimbBase == 2^LimbBits

Tl(x) == IF x = <<>> THEN <<>> ELSE Tail(x)
Hd(x) == IF x = <<>> THEN 0 ELSE Head(x)

RECURSIVE BTrim(_)
BTrim(x) ==
    IF x = <<>> THEN <<>>
    ELSE IF x[Len(x)] = 0 THEN BTrim(SubSeq(x, 1, Len(x) - 1)) ELSE x

RECURSIVE BFromInt(_)
BFromInt(n) ==
    IF n = 0 THEN <<>> ELSE <<n % LimbBase>> \o BFromInt(n \div LimbBase)

RECURSIVE BAddC(_, _, _)
BAddC(x, y, c) ==
    IF x = <<>> /\ y = <<>> THEN (IF c = 0 THEN <<>> ELSE <<c>>)
    ELSE LET s == Hd(x) + Hd(y) + c
         IN  <<s % LimbBase>> \o BAddC(Tl(x), Tl(y), s \div LimbBase)

BAdd(x, y) == BAddC(x, y, 0)

\* x - y for x >= y
RECURSIVE BSubB(_, _, _)
BSubB(x, y, b) ==
    IF x = <<>> THEN <<>>
    ELSE LET d == Head(x) - Hd(y) - b
         IN  IF d < 0 THEN <<d + LimbBase>> \o BSubB(Tail(x), Tl(y), 1)
                      ELSE <<d>> \o BSubB(Tail(x), Tl(y), 0)

BSub(x, y) == BTrim(BSubB(x, y, 0))

\* -1, 0, 1 as x < y, x = y, x > y
RECURSIVE BCmpFrom(_, _, _)
BCmpFrom(x, y, i) ==
    IF i = 0 THEN 0
    ELSE IF x[i] < y[i] THEN -1
    ELSE IF x[i] > y[i] THEN 1
    ELSE BCmpFrom(x, y, i - 1)

BCmp(x, y) ==
    IF Len(x) < Len(y) THEN -1
    ELSE IF Len(x) > Len(y) THEN 1
    ELSE BCmpFrom(x, y, Len(x))

\* x * d for a single limb d
RECURSIVE BMulSmallC(_, _, _)
BMulSmallC(x, d, c) ==
    IF x = <<>> THEN (IF c = 0 THEN <<>> ELSE <<c>>)
    ELSE LET p == Head(x) * d + c
         IN  <<p % LimbBase>> \o BMulSmallC(Tail(x), d, p \div LimbBase)

BMulSmall(x, d) == IF d = 0 THEN <<>> ELSE BMulSmallC(x, d, 0)

RECURSIVE BMul(_, _)
BMul(x, y) ==
    IF x = <<>> \/ y = <<>> THEN <<>>
    ELSE LET rest == BMul(Tail(x), y)
         IN  BAdd(BMulSmall(y, Head(x)),
                  IF rest = <<>> THEN <<>> ELSE <<0>> \o rest)

\* x * 2^k
BShl(x, k) ==
    IF x = <<>> THEN <<>>
    ELSE [i \in 1..(k \div LimbBits) |-> 0] \o BMulSmall(x, 2^(k % LimbBits))

\* floor(x / 2^k)
BShr(x, k) ==
    LET q == k \div LimbBits
        r == k % LimbBits
        n == Len(x) - q
    IN  IF n <= 0 THEN <<>>
        ELSE BTrim([i \in 1..n |->
                 (x[i + q] \div 2^r)
               + (IF i + q < Len(x) THEN (x[i + q + 1] % 2^r) * 2^(LimbBits - r)
                                    ELSE 0)])

RECURSIVE IntBitLen(_)
IntBitLen(n) == IF n = 0 THEN 0 ELSE 1 + IntBitLen(n \div 2)

BBitLen(x) ==
    IF x = <<>> THEN 0 ELSE LimbBits * (Len(x) - 1) + IntBitLen(x[Len(x)])

BOdd(x) == x # <<>> /\ x[1] % 2 = 1

BPow2(k) == BShl(<<1>>, k)

\* bit i (from 0) of x
BBit(x, i) ==
    IF i \div LimbBits >= Len(x) THEN 0
    ELSE (x[(i \div LimbBits) + 1] \div 2^(i % LimbBits)) % 2

\* 2 * x + c, c in 0..1
BDouble(x, c) == BAddC(x, x, c)

\* Restoring division.  For x < 2 * d: <<floor(x * 2^g / d), whether the
\* division left a remainder>>, one quotient bit per step.
RECURSIVE BDivSteps(_, _, _, _)
BDivSteps(r, d, q, k) ==
    LET ge == BCmp(r, d) >= 0
        r1 == IF ge THEN BSub(r, d) ELSE r
        q1 == BDouble(q, IF ge THEN 1 ELSE 0)
    IN  IF k = 0 THEN <<q1, r1 # <<>> >>
        ELSE IF Len(q1) >= 0 /\ Len(r1) >= 0
             THEN BDivSteps(BDouble(r1, 0), d, q1, k - 1)
             ELSE <<q1, FALSE>>

\* Restoring square root, two bits of n per step from bit pair i downwards:
\* <<floor(sqrt(n)), whether n is not a perfect square>>
RECURSIVE BSqrtSteps(_, _, _, _)
BSqrtSteps(n, rem, root, i) ==
    IF i < 0 THEN <<root, rem # <<>> >>
    ELSE LET r4    == BAdd(BMulSmall(rem, 4),
                           BFromInt(2 * BBit(n, 2 * i + 1) + BBit(n, 2 * i)))
             trial == BAdd(BMulSmall(root, 4), <<1>>)
             ge    == BCmp(r4, trial) >= 0
             rem1  == IF ge THEN BSub(r4, trial) ELSE r4
             root1 == BDouble(root, IF ge THEN 1 ELSE 0)
         IN  IF Len(rem1) >= 0 /\ Len(root1) >= 0
             THEN BSqrtSteps(n, rem1, root1, i - 1)
             ELSE <<root1, FALSE>>

BSqrtRem(n) == BSqrtSteps(n, <<>>, <<>>, (BBitLen(n) + 1) \div 2 - 1)

(***************************************************************************)
(* IEEE-754 binary64 values (the JavaScript type number).  A finite value  *)
(* is (-1)^neg * m * 2^e, with m = <<>> and e = 0 (zero), or               *)
(* 2^52 <= m < 2^53 and EMin <= e <= EMax (normal), or 0 < m < 2^52 and    *)
(* e = EMin (subnormal).  A result above the greatest finite value is      *)
(* Infinity, and one below the least subnormal rounds to it or to zero.    *)
(***************************************************************************)
MantissaBits == 53

\* the exponents of the unit in the last place of the greatest and of the
\* least finite values, 971 and -1074: of the 64 bits, those that the sign
\* and the 52 stored bits of the significand leave hold the exponent
EMax == 2^(64 - MantissaBits - 1) - MantissaBits
EMin == 2 - 2^(64 - MantissaBits - 1) - (MantissaBits - 1)

Min(i, j) == IF i < j THEN i ELSE j
Max(i, j) == IF i > j THEN i ELSE j

NaN == [cls |-> "nan", neg |-> FALSE, m |-> <<>>, e |-> 0]
Infinity(neg) == [cls |-> "inf", neg |-> neg, m |-> <<>>, e |-> 0]
FZero(neg) == [cls |-> "fin", neg |-> neg, m |-> <<>>, e |-> 0]

IsNaN(x) == x.cls = "nan"
IsZero(x) == x.cls = "fin" /\ x.m = <<>>

\* (-1)^neg * m * 2^e for m and e in the form of a finite value, or Infinity
\* when e is past the range
Finite(neg, m, e) ==
    IF e > EMax THEN Infinity(neg)
    ELSE [cls |-> "fin", neg |-> neg, m |-> m, e |-> e]

\* the binary64 value nearest to (-1)^neg * (M + f) * 2^e, where 0 <= f < 1 and
\* sticky says f # 0; ties go to the even significand.  k is the count of
\* low bits of M that neither the significand nor the exponent range keeps.
FRound(neg, M, e, sticky) ==
    LET L == BBitLen(M)
        k == Max(L - MantissaBits, EMin - e)
    IN  IF M = <<>> THEN FZero(neg)
        ELSE IF k <= 0
        THEN LET s == Min(MantissaBits - L, e - EMin)
             IN  Finite(neg, BShl(M, s), e - s)
        ELSE LET q    == BShr(M, k)
                 rem  == BSub(M, BShl(q, k))
                 c    == BCmp(rem, BPow2(k - 1))
                 up   == c > 0 \/ (c = 0 /\ (sticky \/ BOdd(q)))
                 q1   == IF up THEN BAdd(q, <<1>>) ELSE q
             IN  IF q1 = <<>> THEN FZero(neg)
                 ELSE IF BBitLen(q1) > MantissaBits
                 THEN Finite(neg, BShr(q1, 1), e + k + 1)
                 ELSE Finite(neg, q1, e + k)

\* an integer of magnitude below 2^31 is a binary64 value
FromInt(n) == FRound(n < 0, BFromInt(IF n < 0 THEN -n ELSE n), 0, FALSE)

\* the binary64 value 2^k, for k in the range of the normal values
Pow2(k) == Finite(FALSE, BPow2(MantissaBits - 1), k - (MantissaBits - 1))

\* the significand of a non-zero finite value with its leading bit at bit 52,
\* and the exponent that goes with it
NormM(x) == BShl(x.m, MantissaBits - BBitLen(x.m))
NormE(x) == x.e - (MantissaBits - BBitLen(x.m))

\* Math.sqrt
FSqrt(x) ==
    IF x.cls = "nan" THEN NaN
    ELSE IF IsZero(x) THEN x
    ELSE IF x.neg THEN NaN
    ELSE IF x.cls = "inf" THEN x
    ELSE LET xe  == NormE(x)
             odd == xe % 2 = 1
             e1  == IF odd THEN xe - 1 ELSE xe
             g   == (MantissaBits + 5) \div 2
             sr  == BSqrtRem(BShl(NormM(x), g + g + (IF odd THEN 1 ELSE 0)))
         IN  FRound(FALSE, sr[1], (e1 \div 2) - g, sr[2])

\* x + y
FAdd(x, y) ==
    IF x.cls = "nan" \/ y.cls = "nan" THEN NaN
    ELSE IF x.cls = "inf" /\ y.cls = "inf"
    THEN (IF x.neg = y.neg THEN x ELSE NaN)
    ELSE IF x.cls = "inf" THEN x
    ELSE IF y.cls = "inf" THEN y
    ELSE IF IsZero(x) /\ IsZero(y) THEN FZero(x.neg /\ y.neg)
    ELSE IF IsZero(x) THEN y
    ELSE IF IsZero(y) THEN x
    ELSE LET e  == Min(x.e, y.e)
             X  == BShl(x.m, x.e - e)
             Y  == BShl(y.m, y.e - e)
             c  == BCmp(X, Y)
         IN  IF x.neg = y.neg THEN FRound(x.neg, BAdd(X, Y), e, FALSE)
             ELSE IF c = 0 THEN FZero(FALSE)
             ELSE IF c > 0 THEN FRound(x.neg, BSub(X, Y), e, FALSE)
             ELSE FRound(y.neg, BSub(Y, X), e, FALSE)

\* x * y
FMul(x, y) ==
    IF x.cls = "nan" \/ y.cls = "nan" THEN NaN
    ELSE IF (x.cls = "inf" /\ IsZero(y)) \/ (IsZero(x) /\ y.cls = "inf") THEN NaN
    ELSE IF x.cls = "inf" \/ y.cls = "inf" THEN Infinity(x.neg # y.neg)
    ELSE IF IsZero(x) \/ IsZero(y) THEN FZero(x.neg # y.neg)
    ELSE FRound(x.neg # y.neg, BMul(x.m, y.m), x.e + y.e, FALSE)

\* x / y
FDiv(x, y) ==
    IF x.cls = "nan" \/ y.cls = "nan" THEN NaN
    ELSE IF (x.cls = "inf" /\ y.cls = "inf") \/ (IsZero(x) /\ IsZero(y)) THEN NaN
    ELSE IF x.cls = "inf" \/ IsZero(y) THEN Infinity(x.neg # y.neg)
    ELSE IF y.cls = "inf" \/ IsZero(x) THEN FZero(x.neg # y.neg)
    ELSE LET g  == MantissaBits + 3
             qr == BDivSteps(NormM(x), NormM(y), <<>>, g)
         IN  FRound(x.neg # y.neg, qr[1], NormE(x) - NormE(y) - g, qr[2])

\* JavaScript ===  on numbers: NaN equals nothing, +0 equals -0
NumEq(x, y) ==
    /\ x.cls # "nan" /\ y.cls # "nan"
    /\ \/ x = y
       \/ IsZero(x) /\ IsZero(y)

(***************************************************************************)
(* corr.ts: the similarity of two vectors and the matrix of similarities.  *)
(* A value of type number[] is [def |-> TRUE, v |-> <<x1, ..., xk>>], its  *)
(* components binary64 values; the value undefined, which an ingested      *)
(* record without an embedding field yields, is Undefined.                 *)
(***************************************************************************)
Arr(v) == [def |-> TRUE, v |-> v]
Undefined == [def |-> FALSE, v |-> <<>>]

\* the array of the integers ns
Vec(ns) == Arr([i \in 1..Len(ns) |-> FromInt(ns[i])])

\* the outcome of a call that throws a TypeError: reading is the property
\* read of undefined, which the error's message names
TypeError(reading) ==
    [cls |-> "TypeError", neg |-> FALSE, m |-> <<>>, e |-> 0, reading |-> reading]

\* the message of the TypeError for a property read of undefined
TypeErrorMessage(reading) ==
    IF reading = "reduce"
    THEN "Cannot read properties of undefined (reading 'reduce')"
    ELSE "Cannot read properties of undefined (reading '0')"

\* a variant of At that reads 0 past the end of b (b[i] ?? 0)
At_zeroPastEnd(b, i) == IF i <= Len(b) THEN b[i] ELSE FZero(FALSE)

\* b[i] for i from 1 as an operand of *: past the end it is undefined, which
\* the multiplication converts to NaN
At(b, i) == IF i <= Len(b) THEN b[i] ELSE NaN

\* a.reduce((sum, val, i) => sum + val * b[i], 0)
RECURSIVE ReduceDot(_, _, _, _)
ReduceDot(a, b, i, sum) ==
    IF i > Len(a) THEN sum
    ELSE ReduceDot(a, b, i + 1, FAdd(sum, FMul(a[i], At(b, i))))

\* a.reduce((sum, val) => sum + val * val, 0)
RECURSIVE ReduceSquares(_, _, _)
ReduceSquares(a, i, sum) ==
    IF i > Len(a) THEN sum
    ELSE ReduceSquares(a, i + 1, FAdd(sum, FMul(a[i], a[i])))

\* a variant of cosineSimilarity that divides by the norm of a alone
cosineSimilarity_oneNorm(a, b) ==
    IF ~a.def THEN TypeError("reduce")
    ELSE IF ~b.def THEN TypeError(IF a.v # <<>> THEN "0" ELSE "reduce")
    ELSE LET dotProduct == ReduceDot(a.v, b.v, 1, FZero(FALSE))
             normA      == FSqrt(ReduceSquares(a.v, 1, FZero(FALSE)))
         IN  FDiv(dotProduct, normA)

cosineSimilarity(a, b) ==
    IF ~a.def THEN TypeError("reduce")   \* a.reduce of undefined
    \* b[0] of undefined in the first reduce, whose callback runs when a has
    \* an element; else b.reduce of undefined
    ELSE IF ~b.def THEN TypeError(IF a.v # <<>> THEN "0" ELSE "reduce")
    ELSE LET dotProduct == ReduceDot(a.v, b.v, 1, FZero(FALSE))
             normA      == FSqrt(ReduceSquares(a.v, 1, FZero(FALSE)))
             normB      == FSqrt(ReduceSquares(b.v, 1, FZero(FALSE)))
         IN  FDiv(dotProduct, FMul(normA, normB))

\* new Matrix(rows, columns) of ml-matrix: zero-filled, either count may be 0
NewMatrix(rows, columns) ==
    [i \in 1..rows |-> [j \in 1..columns |-> FZero(FALSE)]]

\* matrix.set(i, j, value), rows and columns counted from 1
MatrixSet(matrix, i, j, value) == [matrix EXCEPT ![i][j] = value]

\* matrix.to2DArray()
To2DArray(matrix) ==
    [i \in 1..Len(matrix) |-> [j \in 1..Len(matrix[i]) |-> matrix[i][j]]]

\* the two nested loops, from cell (i, j) on
RECURSIVE FillMatrix(_, _, _, _, _)
FillMatrix(matrix, embeddings1, embeddings2, i, j) ==
    IF i > Len(embeddings1)
    THEN [thrown |-> FALSE, error |-> "", matrix |-> To2DArray(matrix)]
    ELSE IF j > Len(embeddings2)
    THEN FillMatrix(matrix, embeddings1, embeddings2, i + 1, 1)
    ELSE LET set(c) ==
                 IF c.cls = "TypeError"
                 THEN [thrown |-> TRUE, error |-> TypeErrorMessage(c.reading),
                       matrix |-> <<>>]
                 ELSE FillMatrix(MatrixSet(matrix, i, j, c),
                                 embeddings1, embeddings2, i, j + 1)
         IN  set(cosineSimilarity(embeddings1[i], embeddings2[j]))

\* a variant of computeCorrelationMatrix whose inner loop skips the first column
computeCorrelationMatrix_skipColumn(embeddings1, embeddings2) ==
    FillMatrix(NewMatrix(Len(embeddings1), Len(embeddings2)),
               embeddings1, embeddings2, 1, 2)

\* [thrown |-> TRUE, error |-> the message, ...] when a cell's computation
\* throws, else the matrix
computeCorrelationMatrix(embeddings1, embeddings2) ==
    FillMatrix(NewMatrix(Len(embeddings1), Len(embeddings2)),
               embeddings1, embeddings2, 1, 1)

(***************************************************************************)
(* Strings: sequences of UTF-16 code units.                                *)
(***************************************************************************)
startsWith(str, prefix) ==
    Len(str) >= Len(prefix) /\ SubSeq(str, 1, Len(prefix)) = prefix

endsWith(str, suffix) ==
    Len(str) >= Len(suffix)
    /\ SubSeq(str, Len(str) - Len(suffix) + 1, Len(str)) = suffix

\* the code units String.prototype.trim removes that the inputs here use
WhiteSpace == {" ", "\t", "\n"}

RECURSIVE trimStart(_)
trimStart(str) ==
    IF str # <<>> /\ Head(str) \in WhiteSpace THEN trimStart(Tail(str)) ELSE str

RECURSIVE trimEnd(_)
trimEnd(str) ==
    IF str # <<>> /\ str[Len(str)] \in WhiteSpace
    THEN trimEnd(SubSeq(str, 1, Len(str) - 1)) ELSE str

trim(str) == trimEnd(trimStart(str))

\* str.slice(0, n) for n >= 0
sliceTo(str, n) == SubSeq(str, 1, IF n < Len(str) THEN n ELSE Len(str))

S_dataImage == <<"d", "a", "t", "a", ":", "i", "m", "a", "g", "e", "/">>
S_http      == <<"h", "t", "t", "p", ":", "/", "/">>
S_https     == <<"h", "t", "t", "p", "s", ":", "/", "/">>
S_jpg       == <<".", "j", "p", "g">>
S_jpeg      == <<".", "j", "p", "e", "g">>
S_png       == <<".", "p", "n", "g">>
S_gif       == <<".", "g", "i", "f">>
S_webp      == <<".", "w", "e", "b", "p">>

isImagePath(str) ==
    \/ startsWith(str, S_dataImage)
    \/ startsWith(str, S_http)
    \/ startsWith(str, S_https)
    \/ endsWith(str, S_jpg)
    \/ endsWith(str, S_jpeg)
    \/ endsWith(str, S_png)
    \/ endsWith(str, S_gif)
    \/ endsWith(str, S_webp)

\* the label of an image: U+1F5BC (a surrogate pair) and U+FE0F
ImageGlyph == <<"U+D83D", "U+DDBC", "U+FE0F">>
\* the truncation marker U+2026
Ellipsis == <<"U+2026">>

DefaultMaxLen == 32

\* a variant of truncateLabel that truncates a text of exactly maxLen code units
truncateLabel_atMaxLen(text, maxLen) ==
    IF isImagePath(text) THEN ImageGlyph
    ELSE IF Len(text) >= maxLen THEN sliceTo(text, maxLen) \o Ellipsis
    ELSE text

truncateLabel(text, maxLen) ==
    IF isImagePath(text) THEN ImageGlyph
    ELSE IF Len(text) > maxLen THEN sliceTo(text, maxLen) \o Ellipsis
    ELSE text

(***************************************************************************)
(* reader.ts: readUrl.                                                     *)
(***************************************************************************)
S_ftp == <<"f", "t", "p", ":", "/", "/">>

Err(message) == [name |-> "Error", message |-> message]
NoError == [name |-> "none", message |-> ""]

\* the headers of the request
RequestHeaders(withAllLinks) ==
    {"Accept", "Authorization", "Content-Type", "X-Retain-Images", "X-Md-Link-Style"}
    \cup (IF withAllLinks THEN {"X-With-Links-Summary"} ELSE {})

\* what the two checks at the top of readUrl throw, or NoError
\* a variant of validateUrl without the check of the scheme
validateUrl_noScheme(url) ==
    IF trim(url) = <<>> THEN Err("URL cannot be empty") ELSE NoError

validateUrl(url) ==
    IF trim(url) = <<>> THEN Err("URL cannot be empty")
    ELSE IF ~startsWith(url, S_http) /\ ~startsWith(url, S_https)
    THEN Err("Invalid URL, only http and https URLs are supported")
    ELSE NoError

\* a response body: axios' data.  hasData says whether data.data is truthy;
\* tokens is data.data.usage.tokens, -1 standing for a missing usage
Body(kind, hasData, tokens) == [kind |-> kind, hasData |-> hasData, tokens |-> tokens]
NoBody == Body("none", FALSE, 0)

\* the record console.log writes on success: tokens is usage?.tokens || 0
ReadRecord(body) ==
    [stream |-> "log", what |-> "Read",
     tokens |-> IF body.tokens < 0 THEN 0 ELSE body.tokens, message |-> ""]

\* the record console.error writes in the catch block
ErrorRecord(error) ==
    [stream |-> "error", what |-> "Error reading URL", tokens |-> 0,
     message |-> error.message]

\* a variant of checkResponse without the check of data.data
checkResponse_noCheck(body) ==
    IF body.kind = "empty"
    THEN [name |-> "TypeError", message |-> "Cannot read properties of undefined"]
    ELSE NoError

\* what the try block does with a response body: the error it throws, or NoError
checkResponse(body) ==
    IF body.kind = "empty"
    THEN [name |-> "TypeError", message |-> "Cannot read properties of undefined"]
    ELSE IF ~body.hasData THEN Err("Invalid response data")
    ELSE NoError

(***************************************************************************)
(* corr.ts: resolveImagePath and what it uses of the modules path and fs.  *)
(* The file system is [files |-> the paths of regular files, dirs |-> the  *)
(* paths of directories]; every regular file of interest is an image whose *)
(* bytes are ImageBytes.                                                   *)
(***************************************************************************)
RECURSIVE LastIndexOf(_, _, _)
\* the greatest index <= i at which unit occurs in str, or 0
LastIndexOf(str, unit, i) ==
    IF i = 0 THEN 0
    ELSE IF str[i] = unit THEN i
    ELSE LastIndexOf(str, unit, i - 1)

\* path.dirname
dirname(p) ==
    LET k == LastIndexOf(p, "/", Len(p))
    IN  IF k = 0 THEN <<".">>
        ELSE IF k = 1 THEN <<"/">>
        ELSE SubSeq(p, 1, k - 1)

\* path.basename
basename(p) == SubSeq(p, LastIndexOf(p, "/", Len(p)) + 1, Len(p))

\* path.extname: from the last dot of the base name, unless it starts the name
extname(p) ==
    LET b == basename(p)
        k == LastIndexOf(b, ".", Len(b))
    IN  IF k <= 1 THEN <<>> ELSE SubSeq(b, k, Len(b))

\* path.resolve(baseDir, filePath) for an absolute baseDir and a path
\* without . or .. segments
pathResolve(baseDir, filePath) ==
    IF startsWith(filePath, <<"/">>) THEN filePath
    ELSE IF baseDir = <<"/">> THEN baseDir \o filePath
    ELSE baseDir \o <<"/">> \o filePath

\* String.prototype.toLowerCase on the letters the inputs here use
LowerUnit(c) ==
    CASE c = "P" -> "p" [] c = "N" -> "n" [] c = "G" -> "g"
      [] c = "J" -> "j" [] OTHER -> c

toLowerCase(str) == [i \in 1..Len(str) |-> LowerUnit(str[i])]

B64Alphabet ==
    <<"A", "B", "C", "D", "E", "F", "G", "H", "I", "J", "K", "L", "M",
      "N", "O", "P", "Q", "R", "S", "T", "U", "V", "W", "X", "Y", "Z",
      "a", "b", "c", "d", "e", "f", "g", "h", "i", "j", "k", "l", "m",
      "n", "o", "p", "q", "r", "s", "t", "u", "v", "w", "x", "y", "z",
      "0", "1", "2", "3", "4", "5", "6", "7", "8", "9", "+", "/">>

B64(n) == B64Alphabet[n + 1]

\* Buffer.prototype.toString('base64')
RECURSIVE base64(_)
base64(bytes) ==
    IF bytes = <<>> THEN <<>>
    ELSE IF Len(bytes) = 1
    THEN <<B64(bytes[1] \div 4), B64((bytes[1] % 4) * 16), "=", "=">>
    ELSE IF Len(bytes) = 2
    THEN <<B64(bytes[1] \div 4),
           B64((bytes[1] % 4) * 16 + bytes[2] \div 16),
           B64((bytes[2] % 16) * 4), "=">>
    ELSE <<B64(bytes[1] \div 4),
           B64((bytes[1] % 4) * 16 + bytes[2] \div 16),
           B64((bytes[2] % 16) * 4 + bytes[3] \div 64),
           B64(bytes[3] % 64)>>
         \o base64(SubSeq(bytes, 4, Len(bytes)))

\* the first bytes of a PNG file
ImageBytes == <<137, 80, 78, 71>>

existsSync(fs, p) == p \in fs.files \/ p \in fs.dirs

S_data      == <<"d", "a", "t", "a", ":">>
S_base64    == <<";", "b", "a", "s", "e", "6", "4", ",">>
S_imagePng  == <<"i", "m", "a", "g", "e", "/", "p", "n", "g">>
S_imageJpeg == <<"i", "m", "a", "g", "e", "/", "j", "p", "e", "g">>

\* a variant of resolveImagePath that reads the file without asking whether it
\* exists, so that a missing file throws
resolveImagePath_noExists(filePath, baseDir, fs) ==
    IF \/ startsWith(filePath, S_dataImage)
       \/ startsWith(filePath, S_http)
       \/ startsWith(filePath, S_https)
    THEN [thrown |-> FALSE, error |-> NoError, value |-> filePath]
    ELSE LET fullPath == pathResolve(baseDir, filePath)
         IN  IF fullPath \in fs.files
             THEN [thrown |-> FALSE, error |-> NoError,
                   value |-> S_data \o S_imagePng \o S_base64 \o base64(ImageBytes)]
             ELSE [thrown |-> TRUE,
                   error |-> Err("ENOENT: no such file or directory, open"),
                   value |-> <<>>]

\* [thrown, error, value]: readFileSync throws EISDIR on a directory
resolveImagePath(filePath, baseDir, fs) ==
    IF \/ startsWith(filePath, S_dataImage)
       \/ startsWith(filePath, S_http)
       \/ startsWith(filePath, S_https)
    THEN [thrown |-> FALSE, error |-> NoError, value |-> filePath]
    ELSE LET fullPath == pathResolve(baseDir, filePath)
             mimeType == IF toLowerCase(extname(fullPath)) = S_png
                         THEN S_imagePng ELSE S_imageJpeg
         IN  IF existsSync(fs, fullPath)
             THEN IF fullPath \in fs.files
                  THEN [thrown |-> FALSE, error |-> NoError,
                        value |-> S_data \o mimeType \o S_base64 \o base64(ImageBytes)]
                  ELSE [thrown |-> TRUE,
                        error |-> [name |-> "Error",
                                   message |-> "EISDIR: illegal operation on a directory, read"],
                        value |-> <<>>]
             ELSE [thrown |-> FALSE, error |-> NoError, value |-> filePath]

(***************************************************************************)
(* corr.ts: what the 'data' listener of loadEmbeddings does with one       *)
(* parsed object.  An object is [embedding, hasChunk, chunk]: embedding is *)
(* Arr(v) or Undefined, and chunk is the string when hasChunk.             *)
(***************************************************************************)
Obj(embedding, hasChunk, chunk) ==
    [embedding |-> embedding, hasChunk |-> hasChunk, chunk |-> chunk]

\* a variant of onData that puts the chunk in front (unshift for push)
onData_unshift(embeddings, chunks, obj, baseDir, fs) ==
    LET pushed == Append(embeddings, obj.embedding)
    IN  IF ~obj.hasChunk
        THEN [thrown |-> TRUE,
              error |-> [name |-> "TypeError",
                         message |-> "Cannot read properties of undefined (reading 'startsWith')"],
              embeddings |-> pushed, chunks |-> chunks]
        ELSE IF isImagePath(obj.chunk)
        THEN LET r == resolveImagePath(obj.chunk, baseDir, fs)
             IN  IF r.thrown
                 THEN [thrown |-> TRUE, error |-> r.error,
                       embeddings |-> pushed, chunks |-> chunks]
                 ELSE [thrown |-> FALSE, error |-> NoError,
                       embeddings |-> pushed, chunks |-> <<r.value>> \o chunks]
        ELSE [thrown |-> FALSE, error |-> NoError,
              embeddings |-> pushed, chunks |-> <<obj.chunk>> \o chunks]

\* [thrown, error, embeddings, chunks]: the two arrays after the listener ran
\* or threw
onData(embeddings, chunks, obj, baseDir, fs) ==
    LET pushed == Append(embeddings, obj.embedding)
    IN  IF ~obj.hasChunk
        THEN [thrown |-> TRUE,
              error |-> [name |-> "TypeError",
                         message |-> "Cannot read properties of undefined (reading 'startsWith')"],
              embeddings |-> pushed, chunks |-> chunks]
        ELSE IF isImagePath(obj.chunk)
        THEN LET r == resolveImagePath(obj.chunk, baseDir, fs)
             IN  IF r.thrown
                 THEN [thrown |-> TRUE, error |-> r.error,
                       embeddings |-> pushed, chunks |-> chunks]
                 ELSE [thrown |-> FALSE, error |-> NoError,
                       embeddings |-> pushed, chunks |-> Append(chunks, r.value)]
        ELSE [thrown |-> FALSE, error |-> NoError,
              embeddings |-> pushed, chunks |-> Append(chunks, obj.chunk)]

\* a line of an input file: "json" (it parses to obj), "bad" (it does not
\* parse) or "blank" (the parser skips it)
JsonLine(obj) == [kind |-> "json", obj |-> obj]
BadLine == [kind |-> "bad", obj |-> Obj(Undefined, FALSE, <<>>)]
BlankLine == [kind |-> "blank", obj |-> Obj(Undefined, FALSE, <<>>)]

\* the error ndjson's parser emits for a line that is not JSON
ParseError == Err("Could not parse row")

\* the error a read stream emits when the file cannot be opened or read
ReadError == Err("ENOENT: no such file or directory, open")

(***************************************************************************)
(* The bounds of the model and the inputs drawn within them.               *)
(***************************************************************************)
MaxDim == 2      \* the longest vector given to cosineSimilarity
MaxVecs == 2     \* the most vectors in a set given to computeCorrelationMatrix
MaxTail == 2     \* the most code units after the scheme of a url
MaxBody == 40    \* the longest run of plain text in a label
MaxLenArg == 2   \* the greatest explicit maxLen given to truncateLabel
MaxLines == 2    \* the most lines in the first input file

SeqsUpTo(S, n) == UNION {[1..k -> S] : k \in 0..n}

Repeat(unit, n) == [i \in 1..n |-> unit]

Components == {-1, 0, 1}
Vectors ==
    {Vec(v) : v \in SeqsUpTo(Components, MaxDim)} \cup {Vec(Repeat(1, MaxDim + 1))}

\* vectors with components at the ends of the exponent range, and two
\* without for them to meet: the square of huge (2^512) overflows, that of
\* big (2^511) does not, that of tiny (2^-600) underflows to 0, and that of
\* small ((1 + 2^-52) * 2^-530) is rounded to a subnormal
ExtremeVectors ==
    LET huge  == Pow2(512)
        big   == Pow2(511)
        tiny  == Pow2(0 - 600)
        small == FMul(FAdd(FromInt(1), Pow2(1 - MantissaBits)), Pow2(0 - 530))
        minus(x) == FMul(FromInt(-1), x)
    IN  {Arr(<<huge>>), Arr(<<tiny>>), Arr(<<small>>),
         Arr(<<huge, FromInt(1)>>), Arr(<<tiny, FromInt(0)>>),
         Arr(<<big, big>>), Arr(<<big, minus(big)>>), Arr(<<huge, minus(huge)>>),
         Vec(<<1>>), Vec(<<1, 1>>)}

\* the vector sets of the matrix runs
MatVectors == {Vec(<<1, 0>>), Vec(<<1, 1>>)}
MatLists == SeqsUpTo(MatVectors, MaxVecs)

LabelPrefixes ==
    {<<>>, S_dataImage, S_http, S_https, S_data, <<"x">> \o S_http}
LabelSuffixes ==
    {<<>>, S_jpg, S_jpeg, S_png, S_gif, S_webp,
     <<".", "P", "N", "G">>, S_png \o <<"x">>, <<"p", "n", "g">>}
Texts ==
    {p \o Repeat("a", n) \o x : p \in LabelPrefixes, n \in 0..MaxBody, x \in LabelSuffixes}
MaxLens == {DefaultMaxLen} \cup 0..MaxLenArg

UrlPrefixes ==
    {<<>>, S_http, S_https, S_ftp, <<"h", "t", "t", "p", ":", "/">>,
     <<" ">> \o S_http, <<"H", "T", "T", "P", ":", "/", "/">>, <<"\t">>}
Urls == {p \o t : p \in UrlPrefixes, t \in SeqsUpTo({" ", "x"}, MaxTail)}

Bodies ==
    {Body("empty", FALSE, 0), Body("envelope", FALSE, 0),
     Body("envelope", TRUE, -1), Body("envelope", TRUE, 0), Body("envelope", TRUE, 7)}
TransportErrors ==
    {Err("timeout of 60000ms exceeded"), Err("Request failed with status code 500"),
     Err("Network Error")}

\* the two input files lie in one directory, as does the image a chunk names
S_dir      == <<"/", "d">>
S_file1    == S_dir \o <<"/", "f", "1">>
S_file2    == S_dir \o <<"/", "f", "2">>
S_localPng == <<"a", ".", "p", "n", "g">>
S_assetPath == pathResolve(S_dir, S_localPng)

L_text        == JsonLine(Obj(Vec(<<1, 0>>), TRUE, <<"h", "i">>))
L_image       == JsonLine(Obj(Vec(<<1, 1>>), TRUE, S_localPng))
L_noChunk     == JsonLine(Obj(Vec(<<0, 1>>), FALSE, <<>>))
L_noEmbedding == JsonLine(Obj(Undefined, TRUE, <<"t">>))
LineSet == {L_text, L_image, L_noChunk, L_noEmbedding, BadLine, BlankLine}

\* an input file: its lines, and failAt, the count of lines after which its
\* read stream fails (0: it cannot be opened), or -1 when it never fails
File(lines, failAt) == [lines |-> lines, failAt |-> failAt]
Files1 ==
    {File(l, f) : l \in SeqsUpTo(LineSet, MaxLines), f \in -1..MaxLines}
NoFile == File(<<>>, -2)
Files2 ==
    {NoFile, File(<<L_text>>, -1), File(<<L_image, L_text>>, -1),
     File(<<BadLine>>, -1), File(<<L_text>>, 0)}

\* the image asset is missing, a regular file, or a directory
FileSystems ==
    {[files |-> {}, dirs |-> {}], [files |-> {S_assetPath}, dirs |-> {}],
     [files |-> {}, dirs |-> {S_assetPath}]}

NoNumber == [cls |-> "none", neg |-> FALSE, m |-> <<>>, e |-> 0]
NoMatrix == [thrown |-> FALSE, error |-> "", matrix |-> <<>>]
NoResult == [error |-> NoError, body |-> NoBody]

VARIABLES
    \* truncateLabel: the call's arguments and result
    lb_pc, lb_text, lb_maxLen, lb_out,
    \* cosineSimilarity and computeCorrelationMatrix: arguments and results
    sim_pc, sim_a, sim_b, sim_ab, sim_ba, sim_V1, sim_V2, sim_M,
    \* readUrl: position, arguments, requests sent, console records, outcome
    rd_pc, rd_url, rd_withAllLinks, rd_requests, rd_console, rd_result,
    \* the environment of the correlation tool: the file system and the
    \* input files named on the command line
    fs, inputs,
    \* main: position, loaded data, matrix, labels, standard error, exit
    \* code, and the milestones passed
    cli_pc, embeddings1, chunks1, embeddings2, chunks2, matrix,
    rowLabels, colLabels, stderr, exitCode, events,
    \* the running loadEmbeddings call: the file (1 or 2), lines consumed,
    \* the two arrays, the promise, its rejection reason, the stream, and
    \* the stream that emitted 'error'
    ld_file, ld_pos, ld_embeddings, ld_chunks, ld_promise, ld_error,
    ld_stream, ld_event

lbVars == <<lb_pc, lb_text, lb_maxLen, lb_out>>
simVars == <<sim_pc, sim_a, sim_b, sim_ab, sim_ba, sim_V1, sim_V2, sim_M>>
rdVars == <<rd_pc, rd_url, rd_withAllLinks, rd_requests, rd_console, rd_result>>
envVars == <<fs, inputs>>
mainVars ==
    <<cli_pc, embeddings1, chunks1, embeddings2, chunks2, matrix,
      rowLabels, colLabels, stderr, exitCode, events>>
ldVars ==
    <<ld_file, ld_pos, ld_embeddings, ld_chunks, ld_promise, ld_error,
      ld_stream, ld_event>>
cliVars == <<envVars, mainVars, ldVars>>
vars == <<lbVars, simVars, rdVars, cliVars>>

\* the components a specification does not run
LabelIdle ==
    lb_pc = "idle" /\ lb_text = <<>> /\ lb_maxLen = DefaultMaxLen /\ lb_out = <<>>
SimIdle ==
    /\ sim_pc = "idle" /\ sim_a = Arr(<<>>) /\ sim_b = Arr(<<>>)
    /\ sim_ab = NoNumber /\ sim_ba = NoNumber
    /\ sim_V1 = <<>> /\ sim_V2 = <<>> /\ sim_M = NoMatrix
ReaderIdle ==
    /\ rd_pc = "idle" /\ rd_url = <<>> /\ rd_withAllLinks = FALSE
    /\ rd_requests = <<>> /\ rd_console = <<>> /\ rd_result = NoResult
LoaderIdle ==
    /\ ld_file = 0 /\ ld_pos = 0 /\ ld_embeddings = <<>> /\ ld_chunks = <<>>
    /\ ld_promise = "none" /\ ld_error = NoError
    /\ ld_stream = "none" /\ ld_event = "none"
MainIdle ==
    /\ embeddings1 = <<>> /\ chunks1 = <<>> /\ embeddings2 = <<>> /\ chunks2 = <<>>
    /\ matrix = NoMatrix /\ rowLabels = <<>> /\ colLabels = <<>>
    /\ stderr = <<>> /\ exitCode = 0 /\ events = <<>>
CliIdle ==
    /\ fs = [files |-> {}, dirs |-> {}] /\ inputs = <<>>
    /\ cli_pc = "idle" /\ MainIdle /\ LoaderIdle

(***************************************************************************)
(* truncateLabel, called once with the arguments Init chose.               *)
(***************************************************************************)
InitLabel ==
    /\ lb_pc = "ready" /\ lb_text \in Texts /\ lb_maxLen \in MaxLens /\ lb_out = <<>>
    /\ SimIdle /\ ReaderIdle /\ CliIdle

TruncateLabel ==
    /\ lb_pc = "ready"
    /\ lb_out' = truncateLabel(lb_text, lb_maxLen)
    /\ lb_pc' = "done"
    /\ UNCHANGED <<lb_text, lb_maxLen, simVars, rdVars, cliVars>>

NextLabel == TruncateLabel

SpecLabel == InitLabel /\ [][NextLabel]_vars

(***************************************************************************)
(* cosineSimilarity on a pair of vectors, in both argument orders, and     *)
(* computeCorrelationMatrix on two vector sets; main passes the first set  *)
(* twice when no second file is given.                                     *)
(***************************************************************************)
InitSim ==
    /\ sim_ab = NoNumber /\ sim_ba = NoNumber /\ sim_M = NoMatrix
    /\ \/ /\ sim_pc = "pair"
          /\ \/ sim_a \in Vectors /\ sim_b \in Vectors
             \/ sim_a \in ExtremeVectors /\ sim_b \in ExtremeVectors
          /\ sim_V1 = <<>> /\ sim_V2 = <<>>
       \/ /\ sim_pc = "matrix"
          /\ sim_a = Arr(<<>>) /\ sim_b = Arr(<<>>)
          /\ sim_V1 \in MatLists /\ sim_V2 \in MatLists
    /\ LabelIdle /\ ReaderIdle /\ CliIdle

ComparePair ==
    /\ sim_pc = "pair"
    /\ sim_ab' = cosineSimilarity(sim_a, sim_b)
    /\ sim_ba' = cosineSimilarity(sim_b, sim_a)
    /\ sim_pc' = "pairDone"
    /\ UNCHANGED <<sim_a, sim_b, sim_V1, sim_V2, sim_M, lbVars, rdVars, cliVars>>

ComputeMatrix ==
    /\ sim_pc = "matrix"
    /\ sim_M' = computeCorrelationMatrix(sim_V1, sim_V2)
    /\ sim_pc' = "matrixDone"
    /\ UNCHANGED <<sim_a, sim_b, sim_ab, sim_ba, sim_V1, sim_V2, lbVars, rdVars, cliVars>>

NextSim == ComparePair \/ ComputeMatrix

SpecSim == InitSim /\ [][NextSim]_vars

(***************************************************************************)
(* readUrl, called once.                                                   *)
(***************************************************************************)
Timeout == 60000

InitReader == ReaderIdle /\ LabelIdle /\ SimIdle /\ CliIdle

\* the call up to the await: the two checks, then the request
ReadUrlCall(url, withAllLinks) ==
    /\ rd_pc = "idle"
    /\ rd_url' = url
    /\ rd_withAllLinks' = withAllLinks
    /\ LET invalid == validateUrl(url)
       IN  IF invalid # NoError
           THEN /\ rd_pc' = "thrown"
                /\ rd_result' = [error |-> invalid, body |-> NoBody]
                /\ UNCHANGED rd_requests
           ELSE /\ rd_pc' = "awaiting"
                /\ rd_requests' = Append(rd_requests,
                       [method |-> "POST", endpoint |-> "https://r.jina.ai/",
                        url |-> url, headers |-> RequestHeaders(withAllLinks),
                        timeout |-> Timeout])
                /\ UNCHANGED rd_result
    /\ UNCHANGED <<rd_console, lbVars, simVars, cliVars>>

\* the request fails (transport, time-out, status outside 2xx): the catch block
ReadUrlRejected(error) ==
    /\ rd_pc = "awaiting"
    /\ rd_console' = Append(rd_console, ErrorRecord(error))
    /\ rd_result' = [error |-> error, body |-> NoBody]
    /\ rd_pc' = "thrown"
    /\ UNCHANGED <<rd_url, rd_withAllLinks, rd_requests, lbVars, simVars, cliVars>>

\* the request succeeds with a body: the rest of the try block, and the
\* catch block for what it throws
ReadUrlResolved(body) ==
    /\ rd_pc = "awaiting"
    /\ LET error == checkResponse(body)
       IN  IF error # NoError
           THEN /\ rd_console' = Append(rd_console, ErrorRecord(error))
                /\ rd_result' = [error |-> error, body |-> NoBody]
                /\ rd_pc' = "thrown"
           ELSE /\ rd_console' = Append(rd_console, ReadRecord(body))
                /\ rd_result' = [error |-> NoError, body |-> body]
                /\ rd_pc' = "returned"
    /\ UNCHANGED <<rd_url, rd_withAllLinks, rd_requests, lbVars, simVars, cliVars>>

NextReader ==
    \/ \E url \in Urls, withAllLinks \in BOOLEAN : ReadUrlCall(url, withAllLinks)
    \/ \E error \in TransportErrors : ReadUrlRejected(error)
    \/ \E body \in Bodies : ReadUrlResolved(body)

SpecReader == InitReader /\ [][NextReader]_vars

(***************************************************************************)
(* The correlation tool: main, and the loadEmbeddings call it awaits.      *)
(*                                                                         *)
(* loadEmbeddings pipes the file's read stream into ndjson's parser and    *)
(* listens for 'data', 'end' and 'error' on what pipe returns: the parser. *)
(* pipe forwards no errors, so the read stream has no 'error' listener;    *)
(* an 'error' event without a listener is thrown, and an exception nobody  *)
(* catches ends the process with exit code 1 after the runtime has written *)
(* it to standard error.                                                   *)
(***************************************************************************)
InitCli ==
    /\ fs \in FileSystems
    /\ inputs \in {<<f1, f2>> : f1 \in {f \in Files1 : f.failAt <= Len(f.lines)},
                                f2 \in Files2}
    /\ cli_pc = "start"
    /\ MainIdle /\ LoaderIdle
    /\ LabelIdle /\ SimIdle /\ ReaderIdle

CurrentFile == inputs[ld_file]
Awaiting == cli_pc \in {"await1", "await2"}

\* loadEmbeddings(path): a pending promise and a flowing stream
StartLoad(file) ==
    /\ ld_file' = file
    /\ ld_pos' = 0
    /\ ld_embeddings' = <<>>
    /\ ld_chunks' = <<>>
    /\ ld_promise' = "pending"
    /\ ld_error' = NoError
    /\ ld_stream' = "flowing"
    /\ ld_event' = "none"

\* reject(error): a settled promise stays as it is
Reject(error) ==
    IF ld_promise = "pending"
    THEN ld_promise' = "rejected" /\ ld_error' = error
    ELSE UNCHANGED <<ld_promise, ld_error>>

\* the runtime's end of the process on an exception nobody catches
Crash(error) ==
    /\ stderr' = Append(stderr, [by |-> "runtime", message |-> error.message])
    /\ exitCode' = 1
    /\ cli_pc' = "crashed"

\* a variant of the catch block that exits with code 0
Catch_exitZero(error) ==
    /\ stderr' = Append(stderr, [by |-> "main", message |-> error.message])
    /\ exitCode' = 0
    /\ cli_pc' = "exited"

\* the catch block of main
Catch(error) ==
    /\ stderr' = Append(stderr, [by |-> "main", message |-> error.message])
    /\ exitCode' = 1
    /\ cli_pc' = "exited"

MainStart ==
    /\ cli_pc = "start"
    /\ cli_pc' = "await1"
    /\ StartLoad(1)
    /\ UNCHANGED <<embeddings1, chunks1, embeddings2, chunks2, matrix, rowLabels,
                   colLabels, stderr, exitCode, events>>
    /\ UNCHANGED <<envVars, lbVars, simVars, rdVars>>

MoreLines ==
    /\ ld_pos < Len(CurrentFile.lines)
    /\ CurrentFile.failAt = -1 \/ ld_pos < CurrentFile.failAt

\* the parser takes the next line: it skips a blank one, emits 'error' for one
\* that is not JSON (pipe then unpipes the read stream), and emits 'data' for
\* any other, whose listener returns
LoadLine ==
    /\ Awaiting
    /\ ld_stream \in {"flowing", "unpiped"}
    /\ MoreLines
    /\ LET line == CurrentFile.lines[ld_pos + 1]
           r    == onData(ld_embeddings, ld_chunks, line.obj, dirname(S_file1), fs)
       IN  /\ line.kind = "json" => ~r.thrown
           /\ ld_pos' = ld_pos + 1
           /\ IF line.kind = "blank"
              THEN UNCHANGED <<ld_embeddings, ld_chunks, ld_promise, ld_error,
                               ld_stream, ld_event>>
              ELSE IF line.kind = "bad"
              THEN /\ Reject(ParseError)
                   /\ ld_stream' = "unpiped"
                   /\ ld_event' = "parser"
                   /\ UNCHANGED <<ld_embeddings, ld_chunks>>
              ELSE /\ ld_embeddings' = r.embeddings
                   /\ ld_chunks' = r.chunks
                   /\ UNCHANGED <<ld_promise, ld_error, ld_stream, ld_event>>
    /\ UNCHANGED <<ld_file, mainVars, envVars, lbVars, simVars, rdVars>>

\* the parser emits 'data' and the listener throws.  When the parser emits from
\* inside its own try block it takes the exception as a stream error and
\* emits 'error' (caught); otherwise nobody catches the exception.
LoadLineThrows(caught) ==
    /\ Awaiting
    /\ ld_stream \in {"flowing", "unpiped"}
    /\ MoreLines
    /\ LET line == CurrentFile.lines[ld_pos + 1]
           r    == onData(ld_embeddings, ld_chunks, line.obj, dirname(S_file1), fs)
       IN  /\ line.kind = "json" /\ r.thrown
           /\ ld_pos' = ld_pos + 1
           /\ ld_embeddings' = r.embeddings
           /\ ld_chunks' = r.chunks
           /\ ld_stream' = "destroyed"
           /\ ld_event' = "listener"
           /\ IF caught
              THEN /\ Reject(r.error)
                   /\ UNCHANGED mainVars
              ELSE /\ Crash(r.error)
                   /\ UNCHANGED <<ld_promise, ld_error, embeddings1, chunks1,
                                  embeddings2, chunks2, matrix, rowLabels,
                                  colLabels, events>>
    /\ UNCHANGED <<ld_file, envVars, lbVars, simVars, rdVars>>

\* the read stream ends and the parser, its last line taken, emits 'end'
LoadEnd ==
    /\ Awaiting
    /\ ld_stream = "flowing"
    /\ ld_pos = Len(CurrentFile.lines)
    /\ CurrentFile.failAt = -1
    /\ ld_stream' = "ended"
    /\ IF ld_promise = "pending"
       THEN ld_promise' = "resolved"
       ELSE UNCHANGED ld_promise
    /\ UNCHANGED <<ld_file, ld_pos, ld_embeddings, ld_chunks, ld_error, ld_event>>
    /\ UNCHANGED <<mainVars, envVars, lbVars, simVars, rdVars>>

\* the read stream emits 'error': the file cannot be opened, or a read fails
LoadReadError ==
    /\ Awaiting
    /\ ld_stream = "flowing"
    /\ CurrentFile.failAt = ld_pos
    /\ ld_stream' = "destroyed"
    /\ ld_event' = "read"
    /\ Crash(ReadError)
    /\ UNCHANGED <<ld_file, ld_pos, ld_embeddings, ld_chunks, ld_promise, ld_error>>
    /\ UNCHANGED <<embeddings1, chunks1, embeddings2, chunks2, matrix, rowLabels,
                   colLabels, events>>
    /\ UNCHANGED <<envVars, lbVars, simVars, rdVars>>

\* main resumes after await loadEmbeddings(file1)
MainAfterLoad1 ==
    /\ cli_pc = "await1"
    /\ ld_promise \in {"resolved", "rejected"}
    /\ IF ld_promise = "rejected"
       THEN /\ Catch(ld_error)
            /\ UNCHANGED <<embeddings1, chunks1, embeddings2, chunks2, events, ldVars>>
       ELSE /\ embeddings1' = ld_embeddings
            /\ chunks1' = ld_chunks
            /\ events' = Append(events, "load1")
            /\ IF inputs[2] # NoFile
               THEN /\ cli_pc' = "await2"
                    /\ StartLoad(2)
                    /\ UNCHANGED <<embeddings2, chunks2>>
               ELSE /\ cli_pc' = "compute"
                    /\ embeddings2' = ld_embeddings
                    /\ chunks2' = ld_chunks
                    /\ UNCHANGED ldVars
            /\ UNCHANGED <<stderr, exitCode>>
    /\ UNCHANGED <<matrix, rowLabels, colLabels, envVars, lbVars, simVars, rdVars>>

\* main resumes after await loadEmbeddings(file2)
MainAfterLoad2 ==
    /\ cli_pc = "await2"
    /\ ld_promise \in {"resolved", "rejected"}
    /\ IF ld_promise = "rejected"
       THEN /\ Catch(ld_error)
            /\ UNCHANGED <<embeddings2, chunks2, events>>
       ELSE /\ embeddings2' = ld_embeddings
            /\ chunks2' = ld_chunks
            /\ events' = Append(events, "load2")
            /\ cli_pc' = "compute"
            /\ UNCHANGED <<stderr, exitCode>>
    /\ UNCHANGED <<embeddings1, chunks1, matrix, rowLabels, colLabels>>
    /\ UNCHANGED <<ldVars, envVars, lbVars, simVars, rdVars>>

\* the matrix and the labels
MainCompute ==
    /\ cli_pc = "compute"
    /\ LET then(r) ==
               IF r.thrown
               THEN /\ Catch([name |-> "TypeError", message |-> r.error])
                    /\ UNCHANGED <<matrix, rowLabels, colLabels, events>>
               ELSE /\ matrix' = r
                    /\ rowLabels' = [k \in 1..Len(chunks1) |->
                                        truncateLabel(chunks1[k], DefaultMaxLen)]
                    /\ colLabels' = [k \in 1..Len(chunks2) |->
                                        truncateLabel(chunks2[k], DefaultMaxLen)]
                    /\ events' = Append(events, "matrix")
                    /\ cli_pc' = "listen"
                    /\ UNCHANGED <<stderr, exitCode>>
       IN  then(computeCorrelationMatrix(embeddings1, embeddings2))
    /\ UNCHANGED <<embeddings1, chunks1, embeddings2, chunks2>>
    /\ UNCHANGED <<ldVars, envVars, lbVars, simVars, rdVars>>

\* express() and app.listen(port)
MainListen ==
    /\ cli_pc = "listen"
    /\ events' = Append(events, "listen")
    /\ cli_pc' = "serving"
    /\ UNCHANGED <<embeddings1, chunks1, embeddings2, chunks2, matrix, rowLabels,
                   colLabels, stderr, exitCode>>
    /\ UNCHANGED <<ldVars, envVars, lbVars, simVars, rdVars>>

NextCli ==
    \/ MainStart
    \/ LoadLine
    \/ \E caught \in BOOLEAN : LoadLineThrows(caught)
    \/ LoadEnd
    \/ LoadReadError
    \/ MainAfterLoad1
    \/ MainAfterLoad2
    \/ MainCompute
    \/ MainListen

SpecCli == InitCli /\ [][NextCli]_vars

(***************************************************************************)
(* The two pipelines of the repository: a run is a run of the correlation  *)
(* tool or a call of readUrl.                                              *)
(***************************************************************************)
InitPipelines == InitCli \/ InitReader

NextPipelines ==
    \/ NextCli
    \/ cli_pc = "idle" /\ NextReader

SpecPipelines == InitPipelines /\ [][NextPipelines]_vars

(***************************************************************************)
(* The properties checked.                                                 *)
(***************************************************************************)

\* a record line with both fields: an embedding array and a chunk string
ValidRecord(line) ==
    line.kind = "json" /\ line.obj.embedding.def /\ line.obj.hasChunk
AllValid(file) == \A k \in 1..Len(file.lines) : ValidRecord(file.lines[k])
Loading == ld_file \in {1, 2}

\* C1: whenever the file's read stream or the parser has emitted 'error', the
\* promise of loadEmbeddings is rejected: not resolved, and not left pending.
C1_StreamErrorRejects ==
    (Loading /\ ld_event \in {"read", "parser"}) => ld_promise = "rejected"

\* C2 as stated: while a file of valid records is ingested, the two arrays
\* have equal length after every 'data' event.
C2_AlwaysEqualLength ==
    (Loading /\ AllValid(CurrentFile)) => Len(ld_embeddings) = Len(ld_chunks)

\* the chunk stored for a record: the record's chunk, or for a local image
\* the data URI made from it
ChunkFrom(stored, line) ==
    IF isImagePath(line.obj.chunk) /\ existsSync(fs, S_assetPath)
    THEN startsWith(stored, S_data \o S_imagePng \o S_base64)
    ELSE stored = line.obj.chunk

\* C2 as amended: the two arrays have equal length after every 'data' event
\* whose listener returns; a listener that throws has appended the embedding
\* only, and then the promise never resolves; and for a file of N valid
\* records a resolved promise holds N embeddings and N chunks, the k-th of
\* each from the k-th line.
C2_Ingestion ==
    Loading =>
      /\ ld_event # "listener" => Len(ld_embeddings) = Len(ld_chunks)
      /\ ld_event = "listener" =>
            /\ Len(ld_embeddings) = Len(ld_chunks) + 1
            /\ ld_promise # "resolved"
      /\ (AllValid(CurrentFile) /\ ld_event = "none") => Len(ld_chunks) = ld_pos
      /\ (AllValid(CurrentFile) /\ ld_promise = "resolved") =>
            /\ Len(ld_embeddings) = Len(CurrentFile.lines)
            /\ Len(ld_chunks) = Len(CurrentFile.lines)
            /\ \A k \in 1..Len(CurrentFile.lines) :
                  /\ ld_embeddings[k] = CurrentFile.lines[k].obj.embedding
                  /\ ChunkFrom(ld_chunks[k], CurrentFile.lines[k])

C2_Witness ==
    /\ ld_file = 1 /\ ld_promise = "resolved"
    /\ inputs[1].lines = <<L_image, L_text>>
    /\ ld_chunks[2] = <<"h", "i">>

\* C3: the matrix has one row for each vector of the first set, each row one
\* cell for each vector of the second, the cell the similarity of the two;
\* and the call leaves its arguments as they were.
C3_Shape ==
    sim_pc = "matrixDone" =>
      /\ ~sim_M.thrown
      /\ Len(sim_M.matrix) = Len(sim_V1)
      /\ \A i \in 1..Len(sim_V1) :
            /\ Len(sim_M.matrix[i]) = Len(sim_V2)
            /\ \A j \in 1..Len(sim_V2) :
                  sim_M.matrix[i][j] = cosineSimilarity(sim_V1[i], sim_V2[j])

C3_MatrixShapeAndCells ==
    /\ []C3_Shape
    /\ [][sim_V1' = sim_V1 /\ sim_V2' = sim_V2]_vars

C3_Witness ==
    /\ sim_pc = "matrixDone"
    /\ sim_V1 = <<Vec(<<1, 0>>), Vec(<<1, 1>>)>> /\ sim_V2 = <<Vec(<<1, 1>>)>>
    /\ Len(sim_M.matrix) = 2 /\ Len(sim_M.matrix[2]) = 1
    /\ sim_M.matrix[1][1] # sim_M.matrix[2][1]

\* the binary64 value 1.0
One == FromInt(1)

\* |x - 1| <= 2^-51
NearOne(x) ==
    /\ x.cls = "fin" /\ ~x.neg
    /\ \/ /\ x.e = 1 - MantissaBits
          /\ BCmp(BSub(x.m, BPow2(MantissaBits - 1)), BFromInt(2)) <= 0
       \/ /\ x.e = 0 - MantissaBits
          /\ BCmp(BSub(BPow2(MantissaBits), x.m), BFromInt(4)) <= 0

PairDone == sim_pc = "pairDone"
SameLength == Len(sim_a.v) = Len(sim_b.v)

\* C4 as stated: for non-empty vectors of equal length the similarity of a
\* vector with itself is 1.0 (to within 2^-51) and the similarity is
\* symmetric; so the matrix of a set with itself has 1.0 on its diagonal and
\* is symmetric.
C4_UnitAndSymmetric ==
    /\ (PairDone /\ SameLength /\ sim_a.v # <<>>) =>
          /\ NumEq(sim_ab, sim_ba)
          /\ sim_a = sim_b => NearOne(sim_ab)
    /\ (sim_pc = "matrixDone" /\ sim_V1 = sim_V2) =>
          \A i, j \in 1..Len(sim_V1) :
             /\ NearOne(sim_M.matrix[i][i])
             /\ NumEq(sim_M.matrix[i][j], sim_M.matrix[j][i])

\* the sum of a[i] * b[i] over the first n indices, as binary64 computes it
\* from the left
RECURSIVE DotOver(_, _, _)
DotOver(a, b, n) ==
    IF n = 0 THEN FZero(FALSE)
    ELSE FAdd(DotOver(a, b, n - 1), FMul(a[n], b[n]))

\* the sum of the squares of a vector's components, as binary64 computes it
SquareSum(a) == DotOver(a.v, a.v, Len(a.v))

\* finite and not zero: the squares neither overflowed nor all vanished
Usable(x) == x.cls = "fin" /\ ~IsZero(x)

AllZero(a) == \A i \in 1..Len(a.v) : IsZero(a.v[i])

\* C4 as amended: for non-empty vectors a, b of equal length with finite
\* components, the similarity of a with b and of b with a are the same
\* value, and == unless it is NaN; it is not NaN when both computed sums of
\* squares are finite and non-zero, and it is NaN when a or b is all-zero.
\* The similarity of a with itself is within 2^-51 of 1.0 when the computed
\* sum of its squares is finite and non-zero, and NaN when that sum is 0 or
\* Infinity.  So the matrix of a set with itself is symmetric in this sense
\* and its diagonal is within 2^-51 of 1.0 at vectors of the first kind.
C4_NearOneAndSymmetric ==
    /\ (PairDone /\ SameLength /\ sim_a.v # <<>>) =>
          /\ sim_ab = sim_ba
          /\ ~IsNaN(sim_ab) => NumEq(sim_ab, sim_ba)
          /\ (Usable(SquareSum(sim_a)) /\ Usable(SquareSum(sim_b)))
                => ~IsNaN(sim_ab)
          /\ (AllZero(sim_a) \/ AllZero(sim_b)) => IsNaN(sim_ab)
          /\ sim_a = sim_b =>
                IF Usable(SquareSum(sim_a)) THEN NearOne(sim_ab)
                                            ELSE IsNaN(sim_ab)
    /\ (sim_pc = "matrixDone" /\ sim_V1 = sim_V2) =>
          \A i, j \in 1..Len(sim_V1) :
             /\ Usable(SquareSum(sim_V1[i])) => NearOne(sim_M.matrix[i][i])
             /\ sim_M.matrix[i][j] = sim_M.matrix[j][i]
             /\ ~IsNaN(sim_M.matrix[i][j])
                   => NumEq(sim_M.matrix[i][j], sim_M.matrix[j][i])

C4_Witness ==
    /\ PairDone /\ sim_a = Vec(<<1, 1>>) /\ sim_b = sim_a
    /\ NearOne(sim_ab) /\ ~NumEq(sim_ab, One)

\* dot(a, b) over the indices of the shorter vector, over the two norms
ShorterIndexSimilarity(a, b) ==
    FDiv(DotOver(a.v, b.v, Min(Len(a.v), Len(b.v))),
         FMul(FSqrt(SquareSum(a)), FSqrt(SquareSum(b))))

\* C10 as stated: for vectors of different lengths the similarity, in either
\* argument order, is a number computed from the dot product over the shorter
\* vector's indices, not an error and not NaN.
C10_ShorterIndicesBothOrders ==
    (PairDone /\ ~SameLength) =>
      /\ sim_ab.cls \in {"fin", "inf"} /\ sim_ba.cls \in {"fin", "inf"}
      /\ sim_ab = ShorterIndexSimilarity(sim_a, sim_b)

\* C10 as amended: for vectors of different lengths with finite components
\* the call raises no error.  With the longer vector first the result is
\* NaN.  With the shorter vector first the dot product runs over the shorter
\* vector's indices and the norms over the whole vectors, and the result is
\* not NaN when both computed sums of squares are finite and non-zero.
C10_ShorterFirstOnly ==
    (PairDone /\ ~SameLength) =>
      /\ sim_ab.cls \in {"fin", "inf", "nan"}
      /\ Len(sim_a.v) > Len(sim_b.v) => IsNaN(sim_ab)
      /\ Len(sim_a.v) < Len(sim_b.v) =>
            /\ sim_ab = ShorterIndexSimilarity(sim_a, sim_b)
            /\ (Usable(SquareSum(sim_a)) /\ Usable(SquareSum(sim_b)))
                  => ~IsNaN(sim_ab)

C10_Witness ==
    /\ PairDone /\ sim_a = Vec(<<1, 1>>) /\ sim_b = Vec(<<1>>)
    /\ IsNaN(sim_ab) /\ sim_ba.cls = "fin" /\ ~IsZero(sim_ba)

\* a url of white space only, the empty one included
IsBlank(url) == \A i \in 1..Len(url) : url[i] \in WhiteSpace

HasHttpScheme(url) ==
    \E p \in {S_http, S_https} :
       Len(url) >= Len(p) /\ \A i \in 1..Len(p) : url[i] = p[i]

InvalidInputMessages ==
    {"URL cannot be empty", "Invalid URL, only http and https URLs are supported"}

\* C5: a call with a blank url or one without the http:// or https:// scheme
\* has failed with an InvalidInput error and sent no request; a request is
\* sent only for a url that passes both checks.
C5_InvalidUrlFailsBeforeRequest ==
    rd_pc # "idle" =>
      IF IsBlank(rd_url) \/ ~HasHttpScheme(rd_url)
      THEN /\ rd_pc = "thrown"
           /\ rd_result.error.message \in InvalidInputMessages
           /\ rd_requests = <<>>
      ELSE /\ Len(rd_requests) = 1
           /\ rd_requests[1].url = rd_url
           /\ rd_result.error.message \notin InvalidInputMessages

C5_Witness ==
    /\ rd_pc = "thrown" /\ rd_url = S_ftp \o <<"x">> /\ rd_requests = <<>>
    /\ rd_result.error.message \in InvalidInputMessages

ErrorRecords == {i \in 1..Len(rd_console) : rd_console[i].stream = "error"}
ReadRecords == {i \in 1..Len(rd_console) : rd_console[i].stream = "log"}

\* C9 as stated: every failed call has written an error record, every
\* successful call has written exactly one Read record and returns the
\* envelope, and no call sends more than one request.
C9_EveryFailureRecorded ==
    /\ rd_pc = "thrown" => ErrorRecords # {}
    /\ rd_pc = "returned" =>
          Cardinality(ReadRecords) = 1 /\ rd_result.body.hasData
    /\ Len(rd_requests) <= 1

\* C9 as amended: a call that fails after its request was sent (transport
\* failure, status outside 2xx, or an envelope without data) has written
\* exactly one error record, which carries the message of the error thrown;
\* a call that fails the url checks (InvalidInput) has written no record
\* and sent no request; a successful call has written exactly one Read
\* record and no error record and returns the envelope; no call sends more
\* than one request.
C9_FailureAfterRequestRecorded ==
    /\ (rd_pc = "thrown" /\ rd_requests # <<>>) =>
          /\ rd_console = <<ErrorRecord(rd_result.error)>>
          /\ rd_result.error.message \notin InvalidInputMessages
    /\ (rd_pc = "thrown" /\ rd_requests = <<>>) =>
          /\ rd_console = <<>>
          /\ rd_result.error.message \in InvalidInputMessages
    /\ rd_pc = "returned" =>
          /\ Cardinality(ReadRecords) = 1 /\ ErrorRecords = {}
          /\ rd_result.error = NoError
          /\ rd_result.body.kind = "envelope" /\ rd_result.body.hasData
    /\ rd_pc = "awaiting" => rd_console = <<>>
    /\ Len(rd_requests) <= 1

C9_Witness ==
    /\ rd_pc = "thrown" /\ Len(rd_requests) = 1
    /\ rd_result.error.message = "Invalid response data"
    /\ rd_console = <<ErrorRecord(rd_result.error)>>

\* the image references of the specification: by prefix or by suffix
ImagePrefixes == {S_dataImage, S_http, S_https}
ImageSuffixes == {S_jpg, S_jpeg, S_png, S_gif, S_webp}
IsImageReference(text) ==
    \/ \E p \in ImagePrefixes :
          Len(text) >= Len(p) /\ \A i \in 1..Len(p) : text[i] = p[i]
    \/ \E x \in ImageSuffixes :
          Len(text) >= Len(x)
          /\ \A i \in 1..Len(x) : text[Len(text) - Len(x) + i] = x[i]

\* C6: the label of an image reference is the placeholder glyph; the label
\* of any other text is the text itself when it has at most maxLen code
\* units, and else its first maxLen code units and one truncation marker,
\* so never more than maxLen + 1 code units.
C6_TruncateLabel ==
    lb_pc = "done" =>
      IF IsImageReference(lb_text) THEN lb_out = ImageGlyph
      ELSE /\ Len(lb_text) <= lb_maxLen => lb_out = lb_text
           /\ Len(lb_text) > lb_maxLen =>
                 /\ Len(lb_out) = lb_maxLen + 1
                 /\ \A i \in 1..lb_maxLen : lb_out[i] = lb_text[i]
                 /\ lb_out[lb_maxLen + 1] = Ellipsis[1]
           /\ Len(lb_out) <= lb_maxLen + 1

C6_Witness ==
    /\ lb_pc = "done" /\ lb_maxLen = DefaultMaxLen
    /\ lb_text = Repeat("a", DefaultMaxLen + 8)
    /\ Len(lb_out) = DefaultMaxLen + 1 /\ lb_out[Len(lb_out)] = "U+2026"

Ended == cli_pc \in {"exited", "crashed"}
Listening == \E k \in 1..Len(events) : events[k] = "listen"
LoadFailed == ld_promise = "rejected" \/ ld_event # "none"

\* the matrix computation throws: a cell is computed from an undefined embedding
ComputeFails ==
    /\ embeddings1 # <<>> /\ embeddings2 # <<>>
    /\ \/ \E k \in 1..Len(embeddings1) : ~embeddings1[k].def
       \/ \E k \in 1..Len(embeddings2) : ~embeddings2[k].def

C7_Order ==
    /\ Ended => (exitCode = 1 /\ stderr # <<>> /\ ~Listening)
    /\ ~Ended => (exitCode = 0 /\ stderr = <<>>)
    /\ LoadFailed => (~Listening /\ cli_pc \notin {"compute", "listen", "serving"})
    /\ (cli_pc \in {"listen", "serving"} \/ Listening) =>
          /\ ~LoadFailed /\ ~matrix.thrown /\ ~ComputeFails
          /\ SubSeq(events, 1, Len(events) - (IF Listening THEN 1 ELSE 0))
                = (IF inputs[2] = NoFile THEN <<"load1", "matrix">>
                                         ELSE <<"load1", "load2", "matrix">>)
          /\ Len(matrix.matrix) = Len(embeddings1)

\* C7: a failed load or a failed matrix computation ends the process with
\* exit code 1 and a message on standard error, and the server never starts;
\* the server starts only after file1 was loaded, then file2 if given, then
\* the matrix computed.
C7_FailureExitsBeforeServer ==
    /\ []C7_Order
    /\ [][/\ (ld_promise = "rejected" /\ cli_pc' # cli_pc)
                => cli_pc' \in {"exited", "crashed"}
          /\ (cli_pc = "compute" /\ ComputeFails /\ cli_pc' # cli_pc)
                => cli_pc' = "exited"
          /\ (~Ended /\ cli_pc' \in {"exited", "crashed"})
                => (exitCode' = 1 /\ Len(stderr') = 1)]_vars

C7_Witness ==
    /\ cli_pc = "exited" /\ events = <<"load1", "load2">>
    /\ exitCode = 1 /\ Len(stderr) = 1 /\ stderr[1].by = "main"

\* the lines consumed so far that are records naming the local image
ImageLinesRead ==
    {k \in 1..ld_pos : CurrentFile.lines[k] = L_image}
AssetMissing == ~existsSync(fs, S_assetPath)

RECURSIVE JsonLines(_)
JsonLines(lines) ==
    IF lines = <<>> THEN <<>>
    ELSE IF Head(lines).kind = "json" THEN <<Head(lines)>> \o JsonLines(Tail(lines))
    ELSE JsonLines(Tail(lines))

\* the message of the TypeError the matrix computation throws: the cells are
\* computed row by row, and a cell throws on b[0] when its row's embedding
\* is an array and its column's is undefined, else on reduce
ComputeMessage ==
    IF embeddings1[1].def /\ \E j \in 1..Len(embeddings2) : ~embeddings2[j].def
    THEN "Cannot read properties of undefined (reading '0')"
    ELSE "Cannot read properties of undefined (reading 'reduce')"

\* the messages of the errors the two pipelines raise
RaisedMessages ==
    {ParseError.message, ReadError.message,
     "Cannot read properties of undefined (reading 'startsWith')",
     "EISDIR: illegal operation on a directory, read",
     "Cannot read properties of undefined (reading 'reduce')",
     "Cannot read properties of undefined (reading '0')"}

\* the errors readUrl catches: those of the request and those of its check
\* of the response
CaughtErrors == TransportErrors \cup {checkResponse(body) : body \in Bodies}

=============================================================================
